---------------------------- MODULE Spec2Model ----------------------------
(***************************************************************************)
(* A model of pdfNotes/export_pdf_annotations_v2.py: the export of a PDF's *)
(* annotations to a Markdown report with colour-grouped sections.          *)
(*                                                                         *)
(* Strings are sequences of Unicode code points, so that whitespace        *)
(* removal, stripping, line splitting and filename sanitising are computed *)
(* character by character as Python computes them.  A colour component of  *)
(* an annotation (a float in [0, 1]) is an integer number of thousandths.  *)
(***************************************************************************)
EXTENDS Integers, Sequences, FiniteSets, TLC

VARIABLES
    pdf_path,          \* the input path
    n_pages,           \* len(doc)
    doc,               \* the pages visited so far, each the annotations visited on it
    page_index,        \* the outer loop's index (0-based)
    rect_index,        \* the per-page counter of shape annotations
    highlight_groups,  \* colour -> list of highlight texts
    notes_blocks,      \* list of note contents
    rect_groups,       \* colour -> list of [image_path, rect_text]
    images,            \* the image files written so far
    lines,             \* the report's lines (after the run)
    markdown,          \* the text written to the .md file, as its "\n"-terminated lines
    pc,                \* the export: "scan" | "done" | "error"; a pure function: "call" | "return"
    rgb,               \* categorize_color's argument
    best_key,          \* categorize_color's result
    parts,             \* make_safe_filename's arguments
    base               \* make_safe_filename's result

vars == <<pdf_path, n_pages, doc, page_index, rect_index, highlight_groups,
          notes_blocks, rect_groups, images, lines, markdown, pc,
          rgb, best_key, parts, base>>

dataVars == <<pdf_path, n_pages, doc, page_index, rect_index, highlight_groups,
              notes_blocks, rect_groups, images, lines, markdown>>

colorVars == <<rgb, best_key>>

nameVars == <<parts, base>>

-----------------------------------------------------------------------------
(* Bounds *)

\* Levels per colour component in the categorize_color specification.
ColorLevels == 29

\* make_safe_filename's inputs: at most MaxParts parts of at most MaxPartLen characters.
MaxParts == 2

MaxPartLen == 1

\* The document: at most MaxPages pages holding at most MaxAnnots annotations in all.
MaxPages == 2

MaxAnnots == 2

-----------------------------------------------------------------------------
(* Python's str and re primitives *)

\* str.isspace() / the class \s of a str pattern.
PySpace == {9, 10, 11, 12, 13, 28, 29, 30, 31, 32, 133, 160, 5760, 8232, 8233,
            8239, 8287, 12288} \cup (8192..8202)

IsSpace(c) == c \in PySpace

\* The characters str.splitlines() breaks at.
LineBreaks == {10, 11, 12, 13, 28, 29, 30, 133, 8232, 8233}

MinOf(S) == CHOOSE x \in S : \A y \in S : x <= y

MaxOf(S) == CHOOSE x \in S : \A y \in S : y <= x

\* str.lstrip(), str.rstrip(), str.strip()
RECURSIVE Lstrip(_)
Lstrip(s) == IF s = <<>> \/ ~IsSpace(Head(s)) THEN s ELSE Lstrip(Tail(s))

RECURSIVE Rstrip(_)
Rstrip(s) ==
    IF s = <<>> \/ ~IsSpace(s[Len(s)]) THEN s ELSE Rstrip(SubSeq(s, 1, Len(s) - 1))

Strip(s) == Lstrip(Rstrip(s))

\* sep.join(strs)
RECURSIVE Join(_, _)
Join(strs, sep) ==
    IF strs = <<>> THEN <<>>
    ELSE IF Len(strs) = 1 THEN strs[1]
    ELSE strs[1] \o sep \o Join(Tail(strs), sep)

\* str.splitlines(), from position i with the current line cur
RECURSIVE SplitlinesFrom(_, _, _)
SplitlinesFrom(s, i, cur) ==
    IF i > Len(s) THEN (IF cur = <<>> THEN <<>> ELSE <<cur>>)
    ELSE IF s[i] \in LineBreaks
         THEN <<cur>> \o SplitlinesFrom(s,
                            IF s[i] = 13 /\ i < Len(s) /\ s[i + 1] = 10 THEN i + 2 ELSE i + 1,
                            <<>>)
         ELSE SplitlinesFrom(s, i + 1, Append(cur, s[i]))

Splitlines(s) == SplitlinesFrom(s, 1, <<>>)

\* str(n) of a non-negative integer
RECURSIVE Str(_)
Str(n) == IF n < 10 THEN <<48 + n>> ELSE Str(n \div 10) \o <<48 + (n % 10)>>

\* s.replace(old, new) for one-character old and new
Replace(s, old, new) == [i \in 1..Len(s) |-> IF s[i] = old THEN new ELSE s[i]]

\* s.replace(old, "") for a one-character old
Remove(s, old) == SelectSeq(s, LAMBDA c : c # old)

\* os.path.basename(p) on Windows, whose paths the program's defaults are:
\* the part after the last / or \
Basename(p) ==
    LET slashes == {i \in 1..Len(p) : p[i] \in {47, 92}}
    IN  IF slashes = {} THEN p ELSE SubSeq(p, MaxOf(slashes) + 1, Len(p))

\* os.path.splitext(p)[0] of a name without directories
SplitextRoot(p) ==
    LET dots == {i \in 1..Len(p) : p[i] = 46 /\ \E j \in 1..(i - 1) : p[j] # 46}
    IN  IF dots = {} THEN p ELSE SubSeq(p, 1, MaxOf(dots) - 1)

-----------------------------------------------------------------------------
(* Filename & Color *)

\* _FILENAME_ALLOWED_RE's complement class: A-Z a-z 0-9 _ -
FilenameAllowed == (65..90) \cup (97..122) \cup (48..57) \cup {95, 45}

\* a looser class, as [^\w.-] would leave: letters of any script, digits, _ . -
FilenameSubLoose(s) ==
    SelectSeq(s, LAMBDA c : c \in FilenameAllowed \/ c = 46 \/ c > 127)

\* _FILENAME_ALLOWED_RE.sub("", base)
FilenameSub(s) == SelectSeq(s, LAMBDA c : c \in FilenameAllowed)

make_safe_filename(ps) ==
    FilenameSub(Remove(Join(ps, <<95>>), 32))

RefOrder == <<"yellow", "red", "blue", "green", "purple">>

refs == [k \in {"yellow", "red", "blue", "green", "purple"} |->
            CASE k = "yellow" -> <<255, 212, 0>>
              [] k = "red"    -> <<230, 0, 0>>
              [] k = "blue"   -> <<0, 112, 192>>
              [] k = "green"  -> <<0, 176, 80>>
              [] k = "purple" -> <<128, 0, 128>>]

Dist(c, ref) ==
    (c[1] - ref[1]) * (c[1] - ref[1]) + (c[2] - ref[2]) * (c[2] - ref[2])
        + (c[3] - ref[3]) * (c[3] - ref[3])

CloserOrEqual(d, best) == best.inf \/ d <= best.d

\* "if d < best_d", best_d starting at float("inf")
Closer(d, best) == best.inf \/ d < best.d

\* the loop "for k, (rr, gg, bb) in refs.items()", from the i-th reference on
RECURSIVE ColorLoop(_, _, _)
ColorLoop(c, i, best) ==
    IF i > Len(RefOrder) THEN best.key
    ELSE LET k == RefOrder[i]
             d == Dist(c, refs[k])
         IN  ColorLoop(c, i + 1,
                       IF Closer(d, best) THEN [key |-> k, inf |-> FALSE, d |-> d] ELSE best)

categorize_color(c) == ColorLoop(c, 1, [key |-> "yellow", inf |-> TRUE, d |-> 0])

COLOR_TITLES == [k \in {"yellow", "red", "blue", "green", "purple"} |->
    CASE k = "yellow" -> <<40644, 33394, 65288, 37325, 28857, 65289>>
      [] k = "red"    -> <<32418, 33394, 65288, 38382, 39064, 65289>>
      [] k = "blue"   -> <<34013, 33394, 65288, 26041, 27861, 65289>>
      [] k = "green"  -> <<32511, 33394, 65288, 20855, 20307, 23454, 39564, 32454, 33410, 65289>>
      [] k = "purple" -> <<32043, 33394, 65288, 35770, 25991, 27010, 25324, 65289>>]

-----------------------------------------------------------------------------
(* The export's variables at rest, for the specifications of the pure functions *)

ExportIdle ==
    /\ pdf_path = <<>>
    /\ n_pages = 0
    /\ doc = <<>>
    /\ page_index = 0
    /\ rect_index = 0
    /\ highlight_groups = [k \in {} |-> <<>>]
    /\ notes_blocks = <<>>
    /\ rect_groups = [k \in {} |-> <<>>]
    /\ images = {}
    /\ lines = <<>>
    /\ markdown = <<>>

ColorIdle == rgb = <<>> /\ best_key = ""

NameIdle == parts = <<>> /\ base = <<>>

-----------------------------------------------------------------------------
(* categorize_color on a grid of RGB triples *)

Levels == {(i * 255) \div (ColorLevels - 1) : i \in 0..(ColorLevels - 1)}

InitColor ==
    /\ ExportIdle
    /\ NameIdle
    /\ rgb \in Levels \X Levels \X Levels
    /\ best_key = ""
    /\ pc = "call"

Categorize ==
    /\ pc = "call"
    /\ best_key' = categorize_color(rgb)
    /\ pc' = "return"
    /\ UNCHANGED <<rgb, dataVars, nameVars>>

NextColor == Categorize

SpecColor == InitColor /\ [][NextColor]_vars

-----------------------------------------------------------------------------
(* make_safe_filename on short part lists *)

NameAlphabet == {97, 90, 57, 95, 45, 32, 47, 46, 35770}

StringsUpTo(n) == UNION {[1..m -> NameAlphabet] : m \in 0..n}

PartLists == UNION {[1..m -> StringsUpTo(MaxPartLen)] : m \in 0..MaxParts}

InitName ==
    /\ ExportIdle
    /\ ColorIdle
    /\ parts \in PartLists
    /\ base = <<>>
    /\ pc = "call"

MakeSafeFilename ==
    /\ pc = "call"
    /\ base' = make_safe_filename(parts)
    /\ pc' = "return"
    /\ UNCHANGED <<parts, dataVars, colorVars>>

NextName == MakeSafeFilename

SpecName == InitName /\ [][NextName]_vars

-----------------------------------------------------------------------------
(* Helpers *)

\* PyMuPDF's annotation type numbers (annot.type[0])
PDF_ANNOT_TEXT == 0

PDF_ANNOT_FREE_TEXT == 2

PDF_ANNOT_SQUARE == 4

PDF_ANNOT_CIRCLE == 5

PDF_ANNOT_HIGHLIGHT == 8

PDF_ANNOT_UNDERLINE == 9

PDF_ANNOT_STRIKEOUT == 11

\* the "" that "annot.type[0] or ''" yields for a falsy type number
NoSubtype == -1

\* subtype = (annot.type[0] if isinstance(annot.type, tuple) else annot.type) or ""
Subtype(annot) == IF annot.type = 0 THEN NoSubtype ELSE annot.type

\* int(r * 255) of a component given in thousandths
ToByte(x) == (x * 255) \div 1000

NoColorRgbRed == <<230, 0, 0>>

\* "if not color: return (255, 212, 0)"
NoColorRgb == <<255, 212, 0>>

\* color = annot.colors.get("stroke") or annot.colors.get("fill"); an empty tuple
\* stands for a missing (None) or empty colour: both are falsy
ColorOf(annot) == IF annot.stroke # <<>> THEN annot.stroke ELSE annot.fill

\* "r, g, b = color" unpacks three components and raises ValueError on any other
\* number (a gray colour has one, a CMYK colour four)
Unpacks(annot) == Len(ColorOf(annot)) \in {0, 3}

rgb_from_annot(annot) ==
    LET color == ColorOf(annot)
    IN  IF color = <<>> THEN NoColorRgb
        ELSE <<ToByte(color[1]), ToByte(color[2]), ToByte(color[3])>>

StripOnly(text) == Strip(text)

\* re.sub(r"\s+", "", text or "")
normalize_highlight_text(text) == SelectSeq(text, LAMBDA c : ~IsSpace(c))

\* annot.quad_texts: what page.get_text returns for each quad of annot.vertices;
\* annot.rect_text: what it returns for annot.rect
extract_highlight_text(annot) ==
    LET texts == IF annot.quad_texts # <<>>
                 THEN [i \in 1..Len(annot.quad_texts) |-> Strip(annot.quad_texts[i])]
                 ELSE <<Strip(annot.rect_text)>>
    IN  Strip(Join(SelectSeq(texts, LAMBDA t : t # <<>>), <<32>>))

\* os.path.join(a, b) on Windows for a relative b
OsPathJoin(a, b) == IF a = <<>> THEN b ELSE a \o <<92>> \o b

\* out_dir, and img_dir's default "images"
OutDir == <<111, 117, 116>>

ImgDir == <<105, 109, 97, 103, 101, 115>>

image_dir == OsPathJoin(OutDir, ImgDir)

PngExt == <<46, 112, 110, 103>>

\* out_path = os.path.join(out_dir, f"{base_name}.png")
save_rect_image_path(base_name) == OsPathJoin(image_dir, base_name \o PngExt)

\* os.path.splitext(os.path.basename(pdf_path))[0]
Title(path) == SplitextRoot(Basename(path))

\* make_safe_filename(title, f"p{page_index+1}", f"rect{rect_index}")
BaseName(path, pageIdx, rectIdx) ==
    make_safe_filename(<<Title(path),
                         <<112>> \o Str(pageIdx + 1),
                         <<114, 101, 99, 116>> \o Str(rectIdx)>>)

-----------------------------------------------------------------------------
(* The documents: what the PDF library hands to the program *)

Colors == {"yellow", "red", "blue", "green", "purple"}

NoColor == [stroke |-> <<>>, fill |-> <<>>]

\* a blue stroke with a red fill; a green fill without stroke
BlueOverRed == [stroke |-> <<0, 439, 753>>, fill |-> <<1000, 0, 0>>]

GreenFill == [stroke |-> <<>>, fill |-> <<0, 690, 314>>]

\* a gray stroke: one component
GrayStroke == [stroke |-> <<500>>, fill |-> <<>>]

Annot(type, color, quad_texts, rect_text, content, raises, save_ok) ==
    [type |-> type, stroke |-> color.stroke, fill |-> color.fill,
     quad_texts |-> quad_texts, rect_text |-> rect_text, content |-> content,
     raises |-> raises, save_ok |-> save_ok]

\* "a \n" and " b" in two quads; "c<U+3000>d" under the rectangle; blanks only
TwoQuads == [quad_texts |-> << <<97, 32, 10>>, <<32, 98>> >>, rect_text |-> <<>>]

NoQuads == [quad_texts |-> <<>>, rect_text |-> <<99, 12288, 100, 10>>]

BlankQuad == [quad_texts |-> << <<32, 10>> >>, rect_text |-> <<120>>]

Markup(type, color, x, raises) ==
    Annot(type, color, x.quad_texts, x.rect_text, <<>>, raises, TRUE)

\* Text marked by a highlight, an underline or a strike-out; page.get_text may raise.
MarkupAnnots ==
    {Markup(PDF_ANNOT_HIGHLIGHT, NoColor, TwoQuads, FALSE),
     Markup(PDF_ANNOT_HIGHLIGHT, NoColor, BlankQuad, FALSE),
     Markup(PDF_ANNOT_HIGHLIGHT, BlueOverRed, TwoQuads, FALSE),
     Markup(PDF_ANNOT_HIGHLIGHT, NoColor, TwoQuads, TRUE),
     Markup(PDF_ANNOT_HIGHLIGHT, GrayStroke, TwoQuads, FALSE),
     Markup(PDF_ANNOT_UNDERLINE, GreenFill, TwoQuads, FALSE),
     Markup(PDF_ANNOT_STRIKEOUT, NoColor, NoQuads, FALSE)}

Note(type, content) == Annot(type, NoColor, <<>>, <<>>, content, FALSE, TRUE)

\* " x \r\n\n y", "z", blanks only
NoteAnnots ==
    {Note(PDF_ANNOT_FREE_TEXT, c) :
        c \in { <<32, 120, 32, 13, 10, 10, 32, 121>>, <<122>>, <<32, 10, 9>> }}
    \cup
    {Note(PDF_ANNOT_TEXT, <<122>>)}

Shape(type, color, raises, save_ok) ==
    Annot(type, color, <<>>, <<102, 105, 103>>, <<>>, raises, save_ok)

\* Squares and circles; reading the region's text may raise, saving the image may fail.
ShapeAnnots ==
    {Shape(PDF_ANNOT_SQUARE, NoColor, FALSE, TRUE),
     Shape(PDF_ANNOT_SQUARE, NoColor, FALSE, FALSE),
     Shape(PDF_ANNOT_CIRCLE, GreenFill, FALSE, TRUE),
     Shape(PDF_ANNOT_CIRCLE, NoColor, TRUE, TRUE)}

\* an ink annotation (type 15), which no branch takes
OtherAnnots == {Annot(15, BlueOverRed, <<>>, <<120>>, <<120>>, FALSE, TRUE)}

Annots == MarkupAnnots \cup NoteAnnots \cup ShapeAnnots \cup OtherAnnots

\* "d\<U+8BBA> a.v2.pdf"
PdfPaths == { <<100, 92, 35770, 32, 97, 46, 118, 50, 46, 112, 100, 102>> }

RECURSIVE Flatten(_)
Flatten(pages) == IF pages = <<>> THEN <<>> ELSE Head(pages) \o Flatten(Tail(pages))

-----------------------------------------------------------------------------
(* Core: export_pdf_annotations *)

Init ==
    /\ ColorIdle
    /\ NameIdle
    /\ pdf_path \in PdfPaths
    /\ n_pages \in 1..MaxPages
    /\ doc = [p \in 1..n_pages |-> <<>>]
    /\ page_index = 0
    /\ rect_index = 0
    /\ highlight_groups = [k \in Colors |-> <<>>]
    /\ notes_blocks = <<>>
    /\ rect_groups = [k \in Colors |-> <<>>]
    /\ images = {}
    /\ lines = <<>>
    /\ markdown = <<>>
    /\ pc = "scan"

\* the loop reaches annotation a, the next one of the current page
Visit(a) ==
    /\ pc = "scan"
    /\ page_index < n_pages
    /\ Len(Flatten(doc)) < MaxAnnots
    /\ doc' = [doc EXCEPT ![page_index + 1] = Append(@, a)]

PrependGroup(groups, k, item) == [groups EXCEPT ![k] = <<item>> \o @]

\* highlight_groups[...].append(txt), rect_groups[...].append({...})
AddToGroup(groups, k, item) == [groups EXCEPT ![k] = Append(@, item)]

\* the two branches that collect marked text (lines 154-158 and 178-182)
CollectText(a) ==
    LET txt == normalize_highlight_text(extract_highlight_text(a))
    IN  IF ~a.raises /\ txt # <<>>
        THEN highlight_groups' =
                 AddToGroup(highlight_groups, categorize_color(rgb_from_annot(a)), txt)
        ELSE UNCHANGED highlight_groups

HighlightStep(a) ==
    /\ Unpacks(a)
    /\ Subtype(a) = PDF_ANNOT_HIGHLIGHT
    /\ Visit(a)
    /\ CollectText(a)
    /\ UNCHANGED <<pdf_path, n_pages, page_index, rect_index, notes_blocks, rect_groups,
                   images, lines, markdown, pc, colorVars, nameVars>>

\* content = "\n".join(ln.strip() for ln in content.splitlines() if ln.strip())
NoteContent(content) ==
    LET lns == Splitlines(content)
        stripped == [i \in 1..Len(lns) |-> Strip(lns[i])]
    IN  Join(SelectSeq(stripped, LAMBDA ln : ln # <<>>), <<10>>)

NoteStep(a) ==
    /\ Unpacks(a)
    /\ Subtype(a) # PDF_ANNOT_HIGHLIGHT
    /\ Subtype(a) \in {PDF_ANNOT_TEXT, PDF_ANNOT_FREE_TEXT}
    /\ Visit(a)
    /\ LET content == NoteContent(a.content)
       IN  notes_blocks' = IF content # <<>> THEN Append(notes_blocks, content)
                           ELSE notes_blocks
    /\ UNCHANGED <<pdf_path, n_pages, page_index, rect_index, highlight_groups, rect_groups,
                   images, lines, markdown, pc, colorVars, nameVars>>

ShapeStep(a) ==
    /\ Unpacks(a)
    /\ Subtype(a) \notin {PDF_ANNOT_HIGHLIGHT, PDF_ANNOT_TEXT, PDF_ANNOT_FREE_TEXT}
    /\ Subtype(a) \in {PDF_ANNOT_SQUARE, PDF_ANNOT_CIRCLE}
    /\ Visit(a)
    /\ rect_index' = rect_index + 1
    /\ LET clip_text == Strip(a.rect_text)
           out_path == save_rect_image_path(BaseName(pdf_path, page_index, rect_index + 1))
           img_path == IF a.save_ok THEN out_path ELSE <<>>
       IN  IF a.raises
           THEN UNCHANGED <<rect_groups, images>>
           ELSE /\ images' = IF a.save_ok THEN images \cup {out_path} ELSE images
                /\ rect_groups' =
                       AddToGroup(rect_groups, categorize_color(rgb_from_annot(a)),
                                  [image_path |-> img_path, rect_text |-> clip_text])
    /\ UNCHANGED <<pdf_path, n_pages, page_index, highlight_groups, notes_blocks,
                   lines, markdown, pc, colorVars, nameVars>>

UnderlineStep(a) ==
    /\ Unpacks(a)
    /\ Subtype(a) \notin {PDF_ANNOT_HIGHLIGHT, PDF_ANNOT_TEXT, PDF_ANNOT_FREE_TEXT,
                          PDF_ANNOT_SQUARE, PDF_ANNOT_CIRCLE}
    /\ Subtype(a) \in {PDF_ANNOT_UNDERLINE, PDF_ANNOT_STRIKEOUT}
    /\ Visit(a)
    /\ CollectText(a)
    /\ UNCHANGED <<pdf_path, n_pages, page_index, rect_index, notes_blocks, rect_groups,
                   images, lines, markdown, pc, colorVars, nameVars>>

\* rgb_from_annot raises outside the try: the export ends with the exception, and no
\* report is written
ColorCrash(a) ==
    /\ ~Unpacks(a)
    /\ Visit(a)
    /\ pc' = "error"
    /\ UNCHANGED <<pdf_path, n_pages, page_index, rect_index, highlight_groups, notes_blocks,
                   rect_groups, images, lines, markdown, colorVars, nameVars>>

\* no branch takes the annotation
OtherStep(a) ==
    /\ Unpacks(a)
    /\ Subtype(a) \notin {PDF_ANNOT_HIGHLIGHT, PDF_ANNOT_TEXT, PDF_ANNOT_FREE_TEXT,
                          PDF_ANNOT_SQUARE, PDF_ANNOT_CIRCLE,
                          PDF_ANNOT_UNDERLINE, PDF_ANNOT_STRIKEOUT}
    /\ Visit(a)
    /\ UNCHANGED <<pdf_path, n_pages, page_index, rect_index, highlight_groups, notes_blocks,
                   rect_groups, images, lines, markdown, pc, colorVars, nameVars>>

\* annot becomes None on a page that is not the last: the next page, with rect_index = 0
NextPage ==
    /\ pc = "scan"
    /\ page_index + 1 < n_pages
    /\ page_index' = page_index + 1
    /\ rect_index' = 0
    /\ UNCHANGED <<pdf_path, n_pages, doc, highlight_groups, notes_blocks, rect_groups,
                   images, lines, markdown, pc, colorVars, nameVars>>

-----------------------------------------------------------------------------
(* Build Markdown *)

TitlePrefix == <<35, 32, 65, 110, 110, 111, 116, 97, 116, 105, 111, 110, 115, 32, 102, 111, 114, 32>>

HighlightsHeading == <<35, 35, 32, 72, 105, 103, 104, 108, 105, 103, 104, 116, 115>>

NotesHeading == <<35, 35, 32, 78, 111, 116, 101, 115>>

RectsHeading == <<35, 35, 32, 82, 101, 99, 116, 97, 110, 103, 108, 101, 115, 32, 47, 32,
                  70, 105, 103, 117, 114, 101, 115>>

SubsectionPrefix == <<35, 35, 35, 32>>

BulletPrefix == <<45, 32, 62, 32>>

\* "> [!note] " followed by U+6CE8 U+91CA
NoteHeader == <<62, 32, 91, 33, 110, 111, 116, 101, 93, 32, 27880, 37322>>

QuotePrefix == <<62, 32>>

ImagePrefix == <<33, 91, 93, 40>>

ImageSuffix == <<41>>

\* order = ["yellow", "red", "blue", "green", "purple"]
order == <<"yellow", "red", "blue", "green", "purple">>

\* the concatenation of the line lists f(1), ..., f(n)
RECURSIVE ConcatTo(_, _)
ConcatTo(f, n) == IF n = 0 THEN <<>> ELSE ConcatTo(f, n - 1) \o f[n]

ConcatAll(f) == ConcatTo(f, Len(f))

SubsectionHeading(k) == SubsectionPrefix \o COLOR_TITLES[k]

HighlightSubsection(k) ==
    LET items == SelectSeq(highlight_groups[k], LAMBDA t : t # <<>>)
    IN  IF items = <<>> THEN <<>>
        ELSE <<SubsectionHeading(k), <<>>>>
             \o [i \in 1..Len(items) |-> BulletPrefix \o items[i]]
             \o << <<>> >>

HighlightsSection ==
    IF \E i \in 1..Len(order) : highlight_groups[order[i]] # <<>>
    THEN <<HighlightsHeading, <<>>>>
         \o ConcatAll([i \in 1..Len(order) |-> HighlightSubsection(order[i])])
    ELSE <<>>

NoteCallout(block) ==
    LET lns == Splitlines(block)
        kept == SelectSeq(lns, LAMBDA ln : Strip(ln) # <<>>)
    IN  <<NoteHeader>> \o [i \in 1..Len(kept) |-> QuotePrefix \o Strip(kept[i])] \o << <<>> >>

NotesSection ==
    IF notes_blocks # <<>>
    THEN <<NotesHeading, <<>>>>
         \o ConcatAll([i \in 1..Len(notes_blocks) |-> NoteCallout(notes_blocks[i])])
    ELSE <<>>

RectItemAlways(it) ==
    <<ImagePrefix \o Replace(it.image_path, 92, 47) \o ImageSuffix, <<>>>>

\* "if it.get("image_path"): lines.append(f"![]({rel})")", then lines.append("")
RectItem(it) ==
    (IF it.image_path # <<>>
     THEN <<ImagePrefix \o Replace(it.image_path, 92, 47) \o ImageSuffix>>
     ELSE <<>>) \o << <<>> >>

RectSubsection(k) ==
    LET items == rect_groups[k]
    IN  IF items = <<>> THEN <<>>
        ELSE <<SubsectionHeading(k), <<>>>>
             \o ConcatAll([i \in 1..Len(items) |-> RectItem(items[i])])

RectsSection ==
    IF \E i \in 1..Len(order) : rect_groups[order[i]] # <<>>
    THEN <<RectsHeading, <<>>>>
         \o ConcatAll([i \in 1..Len(order) |-> RectSubsection(order[i])])
    ELSE <<>>

ReportLines ==
    <<TitlePrefix \o Title(pdf_path), <<>>>> \o HighlightsSection \o NotesSection \o RectsSection

\* markdown = "\n".join(lines).rstrip() + "\n", line by line: no line holds a "\n",
\* so rstrip() drops the trailing lines that are blank and strips the last one left,
\* and an all-blank text becomes the one empty line "\n"
WrittenLines(ls) ==
    LET keep == {i \in 1..Len(ls) : Strip(ls[i]) # <<>>}
        last == MaxOf(keep)
    IN  IF keep = {} THEN << <<>> >>
        ELSE [i \in 1..last |-> IF i = last THEN Rstrip(ls[i]) ELSE ls[i]]

\* annot becomes None on the last page: both loops end, the lines are built and the
\* file is written
BuildMarkdown ==
    /\ pc = "scan"
    /\ page_index + 1 = n_pages
    /\ page_index' = n_pages
    /\ lines' = ReportLines
    /\ markdown' = WrittenLines(lines')
    /\ pc' = "done"
    /\ UNCHANGED <<pdf_path, n_pages, doc, rect_index, highlight_groups,
                   notes_blocks, rect_groups, images, colorVars, nameVars>>

Next ==
    \/ \E a \in Annots : HighlightStep(a)
    \/ \E a \in Annots : NoteStep(a)
    \/ \E a \in Annots : ShapeStep(a)
    \/ \E a \in Annots : UnderlineStep(a)
    \/ \E a \in Annots : OtherStep(a)
    \/ \E a \in Annots : ColorCrash(a)
    \/ NextPage
    \/ BuildMarkdown

Spec == Init /\ [][Next]_vars

-----------------------------------------------------------------------------
(* Reading the written report *)

\* the lines of the written file
Report == markdown

HasPrefix(line, pre) == Len(line) >= Len(pre) /\ \A i \in 1..Len(pre) : line[i] = pre[i]

AfterPrefix(line, pre) == SubSeq(line, Len(pre) + 1, Len(line))

\* the indices of the report's lines that start with pre
LinesWith(pre) == {n \in 1..Len(Report) : HasPrefix(Report[n], pre)}

\* the last line before line n that starts with pre (<<>> when there is none)
LastBefore(n, pre) ==
    LET hs == {m \in LinesWith(pre) : m < n}
    IN  IF hs = {} THEN <<>> ELSE Report[MaxOf(hs)]

\* line n lies in section sec, in the subsection of colour k
InSubsection(n, sec, k) ==
    /\ LastBefore(n, <<35, 35, 32>>) = sec
    /\ LastBefore(n, SubsectionPrefix) = SubsectionPrefix \o COLOR_TITLES[k]

\* the lines of section sec, colour k, that start with pre, in the report's order
RECURSIVE ItemsFrom(_, _, _, _)
ItemsFrom(n, sec, k, pre) ==
    IF n > Len(Report) THEN <<>>
    ELSE (IF HasPrefix(Report[n], pre) /\ InSubsection(n, sec, k)
          THEN <<AfterPrefix(Report[n], pre)>> ELSE <<>>)
         \o ItemsFrom(n + 1, sec, k, pre)

Items(sec, k, pre) == ItemsFrom(1, sec, k, pre)

\* s is t with some elements left out
RECURSIVE IsSubseq(_, _)
IsSubseq(s, t) ==
    IF s = <<>> THEN TRUE
    ELSE IF t = <<>> THEN FALSE
    ELSE IF Head(s) = Head(t) THEN IsSubseq(Tail(s), Tail(t))
    ELSE IsSubseq(s, Tail(t))

MapSeq(s, F(_)) == [i \in 1..Len(s) |-> F(s[i])]

Visited == Flatten(doc)

-----------------------------------------------------------------------------
(* C1 *)

ClaimOrder == <<"yellow", "red", "blue", "green", "purple">>

ClaimRefs == [k \in {"yellow", "red", "blue", "green", "purple"} |->
                CASE k = "yellow" -> <<255, 212, 0>>
                  [] k = "red"    -> <<230, 0, 0>>
                  [] k = "blue"   -> <<0, 112, 192>>
                  [] k = "green"  -> <<0, 176, 80>>
                  [] k = "purple" -> <<128, 0, 128>>]

SqDist(c, k) ==
    (c[1] - ClaimRefs[k][1]) * (c[1] - ClaimRefs[k][1])
    + (c[2] - ClaimRefs[k][2]) * (c[2] - ClaimRefs[k][2])
    + (c[3] - ClaimRefs[k][3]) * (c[3] - ClaimRefs[k][3])

\* C1: for an RGB triple with components in 0..255, categorize_color returns one of
\* the five categories, its reference point is at the minimum squared Euclidean
\* distance from the triple, and no category earlier in the order yellow, red, blue,
\* green, purple is equally near.
C1_NearestFirstInOrder ==
    (pc = "return" /\ rgb # <<>>) =>
        \E i \in 1..Len(ClaimOrder) :
            /\ best_key = ClaimOrder[i]
            /\ \A j \in 1..Len(ClaimOrder) :
                   SqDist(rgb, ClaimOrder[i]) <= SqDist(rgb, ClaimOrder[j])
            /\ \A j \in 1..(i - 1) :
                   SqDist(rgb, ClaimOrder[j]) > SqDist(rgb, ClaimOrder[i])

\* a triple at the same distance from two reference points, categorised
C1_WitnessTie ==
    /\ pc = "return"
    /\ rgb # <<>>
    /\ \E k \in {"yellow", "red", "blue", "green", "purple"} :
           k # best_key /\ SqDist(rgb, k) = SqDist(rgb, best_key)

-----------------------------------------------------------------------------
(* C4 *)

SafeChars == (65..90) \cup (97..122) \cup (48..57) \cup {95, 45}

\* C4: whatever the parts, make_safe_filename returns a string made only of
\* A-Z, a-z, 0-9, '_' and '-'.
C4_OnlySafeChars ==
    (pc = "return" /\ best_key = "") =>
        \A i \in 1..Len(base) : base[i] \in SafeChars

\* parts that hold a character outside the safe set, and a result that is not empty
C4_WitnessUnsafeInput ==
    /\ pc = "return"
    /\ base # <<>>
    /\ \E i \in 1..Len(parts) : \E j \in 1..Len(parts[i]) : parts[i][j] \in {47, 46, 35770}
    /\ \E i \in 1..Len(parts) : \E j \in 1..Len(parts[i]) : parts[i][j] = 32

-----------------------------------------------------------------------------
(* C2 *)

\* the characters with Unicode's White_Space property
UnicodeWhiteSpace == (9..13) \cup {32, 133, 160, 5760, 8232, 8233, 8239, 8287, 12288}
                        \cup (8192..8202)

MarkupTypes == {PDF_ANNOT_HIGHLIGHT, PDF_ANNOT_UNDERLINE, PDF_ANNOT_STRIKEOUT}

\* C2: every highlight bullet ("- > ...") of the written report has a text that is
\* not empty and holds no whitespace character.
C2_BulletsHaveNoWhitespace ==
    pc = "done" =>
        \A n \in LinesWith(BulletPrefix) :
            LET txt == AfterPrefix(Report[n], BulletPrefix)
            IN  /\ txt # <<>>
                /\ \A i \in 1..Len(txt) : txt[i] \notin UnicodeWhiteSpace

\* a report with a bullet, of a document with a marked text that holds whitespace inside
C2_WitnessInnerWhitespace ==
    /\ pc = "done"
    /\ LinesWith(BulletPrefix) # {}
    /\ \E i \in 1..Len(Visited) :
           /\ Visited[i].type \in MarkupTypes
           /\ ~Visited[i].raises
           /\ \E j \in 1..Len(extract_highlight_text(Visited[i])) :
                  extract_highlight_text(Visited[i])[j] \in UnicodeWhiteSpace

-----------------------------------------------------------------------------
(* C3 *)

\* "> [!note] " followed by U+6279 U+6CE8, the header the module's docstring gives
DocNoteHeader == <<62, 32, 91, 33, 110, 111, 116, 101, 93, 32, 25209, 27880>>

NoteTypes == {PDF_ANNOT_TEXT, PDF_ANNOT_FREE_TEXT}

\* the non-blank lines of a note's content, stripped, in their order
NonBlankLines(content) ==
    SelectSeq(MapSeq(Splitlines(content), Strip), LAMBDA ln : ln # <<>>)

DocCallout(content) ==
    <<DocNoteHeader>>
    \o MapSeq(NonBlankLines(content), LAMBDA ln : QuotePrefix \o ln)
    \o << <<>> >>

HasBlock(block) ==
    \E n \in 1..Len(Report) :
        /\ n + Len(block) - 1 <= Len(Report)
        /\ SubSeq(Report, n, n + Len(block) - 1) = block

\* C3: every text or free-text note with a non-blank line is in the report as a
\* callout: the line "> [!note] " with U+6279 U+6CE8, then "> <line>" for each
\* non-blank line of the note, stripped, then a blank line.
C3_NoteCallouts ==
    pc = "done" =>
        \A i \in 1..Len(Visited) :
            (Visited[i].type \in NoteTypes /\ NonBlankLines(Visited[i].content) # <<>>)
                => HasBlock(DocCallout(Visited[i].content))

-----------------------------------------------------------------------------
(* C5 *)

ShapeTypes == {PDF_ANNOT_SQUARE, PDF_ANNOT_CIRCLE}

\* the places <<page, position>> of the document's square and circle annotations
Shapes ==
    {pi \in (1..Len(doc)) \X (1..MaxAnnots) :
        pi[2] <= Len(doc[pi[1]]) /\ doc[pi[1]][pi[2]].type \in ShapeTypes}

\* the shapes whose region was read and whose image was saved
SavedShapes ==
    {pi \in Shapes : ~doc[pi[1]][pi[2]].raises /\ doc[pi[1]][pi[2]].save_ok}

\* the image file of the shape at pi: the n-th shape of its page is "rect<n>"
ShapeImage(pi) ==
    save_rect_image_path(
        BaseName(pdf_path, pi[1] - 1,
                 Cardinality({j \in 1..pi[2] : doc[pi[1]][j].type \in ShapeTypes})))

\* the report's reference to it
ShapeRef(pi) == ImagePrefix \o Replace(ShapeImage(pi), 92, 47) \o ImageSuffix

RefLines(pi) ==
    LET ref == ShapeRef(pi)
    IN  {n \in 1..Len(Report) : Report[n] = ref}

\* one image, and one reference in the subsection of the shape's colour category
ShapeExported(pi) ==
    LET at == RefLines(pi)
    IN  /\ ShapeImage(pi) \in images
        /\ Cardinality(at) = 1
        /\ \A n \in at :
               InSubsection(n, RectsHeading,
                            categorize_color(rgb_from_annot(doc[pi[1]][pi[2]])))

\* C5, as stated: every square or circle annotation has its cropped image and
\* exactly one image reference, under "## Rectangles / Figures" in the subsection of
\* its colour category.
C5_EveryShapeExported ==
    pc = "done" => \A pi \in Shapes : ShapeExported(pi)

\* C5, amended: that holds of every square or circle annotation whose region text
\* was read and whose image was saved; a shape for which either failed has no image
\* and no reference; the images and the image references are as many as the saved
\* shapes.
C5_SavedShapesExported ==
    pc = "done" =>
        /\ \A pi \in SavedShapes : ShapeExported(pi)
        /\ \A pi \in Shapes \ SavedShapes :
               ShapeImage(pi) \notin images /\ RefLines(pi) = {}
        /\ Cardinality(images) = Cardinality(SavedShapes)
        /\ Cardinality(LinesWith(ImagePrefix)) = Cardinality(SavedShapes)

\* a report of a document with a saved shape and a shape whose image could not be saved
C5_WitnessSavedAndFailed ==
    /\ pc = "done"
    /\ SavedShapes # {}
    /\ \E pi \in Shapes : ~doc[pi[1]][pi[2]].raises /\ ~doc[pi[1]][pi[2]].save_ok

-----------------------------------------------------------------------------
(* C6 *)

SectionOrder == <<HighlightsHeading, NotesHeading, RectsHeading>>

Position(seq, x) == MinOf({i \in 1..Len(seq) : seq[i] = x})

\* the colour whose title a subsection heading carries
HeadingColor(line) ==
    CHOOSE k \in {"yellow", "red", "blue", "green", "purple"} :
        line = SubsectionPrefix \o COLOR_TITLES[k]

\* the texts a colour's highlight subsection can hold, in document order
MarkedTexts(k) ==
    MapSeq(SelectSeq(Visited, LAMBDA a : /\ a.type \in MarkupTypes
                                          /\ categorize_color(rgb_from_annot(a)) = k),
           LAMBDA a : normalize_highlight_text(extract_highlight_text(a)))

\* the image paths a colour's figure subsection can hold, in document order
RECURSIVE ShapePathsFrom(_, _, _)
ShapePathsFrom(p, i, k) ==
    IF p > Len(doc) THEN <<>>
    ELSE IF i > Len(doc[p]) THEN ShapePathsFrom(p + 1, 1, k)
    ELSE (IF <<p, i>> \in Shapes /\ categorize_color(rgb_from_annot(doc[p][i])) = k
          THEN <<AfterPrefix(ShapeRef(<<p, i>>), ImagePrefix)>> ELSE <<>>)
         \o ShapePathsFrom(p, i + 1, k)

\* the quoted lines the notes can contribute, in document order
NoteLines ==
    ConcatAll(MapSeq(SelectSeq(Visited, LAMBDA a : a.type \in NoteTypes),
                     LAMBDA a : NonBlankLines(a.content)))

\* the report's quoted lines, in its order
ReportNoteLines ==
    LET idx == {n \in LinesWith(QuotePrefix) : Report[n] # NoteHeader}
        RECURSIVE From(_)
        From(n) == IF n > Len(Report) THEN <<>>
                   ELSE (IF n \in idx THEN <<AfterPrefix(Report[n], QuotePrefix)>> ELSE <<>>)
                        \o From(n + 1)
    IN  From(1)

\* C6: the report starts with the title line; the sections come in the order
\* Highlights, Notes, Rectangles / Figures; in a section the colour subsections come
\* in the order yellow, red, blue, green, purple; and the items of a subsection, and
\* of Notes, come in document order.
C6_ReportOrder ==
    pc = "done" =>
        /\ Report[1] = TitlePrefix \o Title(pdf_path)
        /\ \A n \in LinesWith(<<35, 35, 32>>) : n > 1
        /\ \A n, m \in LinesWith(<<35, 35, 32>>) :
               n < m => /\ \E i \in 1..Len(SectionOrder) : Report[n] = SectionOrder[i]
                        /\ \E i \in 1..Len(SectionOrder) : Report[m] = SectionOrder[i]
                        /\ Position(SectionOrder, Report[n]) < Position(SectionOrder, Report[m])
        /\ \A n, m \in LinesWith(SubsectionPrefix) :
               (n < m /\ LastBefore(n, <<35, 35, 32>>) = LastBefore(m, <<35, 35, 32>>))
                   => Position(ClaimOrder, HeadingColor(Report[n]))
                          < Position(ClaimOrder, HeadingColor(Report[m]))
        /\ \A i \in 1..Len(ClaimOrder) :
               /\ IsSubseq(Items(HighlightsHeading, ClaimOrder[i], BulletPrefix),
                           MarkedTexts(ClaimOrder[i]))
               /\ IsSubseq(Items(RectsHeading, ClaimOrder[i], ImagePrefix),
                           ShapePathsFrom(1, 1, ClaimOrder[i]))
        /\ IsSubseq(ReportNoteLines, NoteLines)

\* a report with two different bullets in one subsection, from two pages
C6_WitnessTwoPages ==
    /\ pc = "done"
    /\ Len(doc) = 2
    /\ Len(doc[1]) = 1
    /\ Len(doc[2]) = 1
    /\ \E k \in {"yellow", "red", "blue", "green", "purple"} :
           /\ Len(Items(HighlightsHeading, k, BulletPrefix)) = 2
           /\ Items(HighlightsHeading, k, BulletPrefix)[1]
                  # Items(HighlightsHeading, k, BulletPrefix)[2]

-----------------------------------------------------------------------------
(* C7 *)

\* the category the claim gives an annotation: yellow without stroke and fill colour
ClaimCategory(a) ==
    IF a.stroke = <<>> /\ a.fill = <<>> THEN "yellow"
    ELSE categorize_color(rgb_from_annot(a))

\* the marked-text annotations whose text was read and is not empty once normalised
Listed(a) ==
    /\ a.type \in MarkupTypes
    /\ ~a.raises
    /\ normalize_highlight_text(extract_highlight_text(a)) # <<>>

SumLen(groups) ==
    Len(groups["yellow"]) + Len(groups["red"]) + Len(groups["blue"])
        + Len(groups["green"]) + Len(groups["purple"])

=============================================================================
